---- MODULE Spec2Model ----
(***************************************************************************)
(* Model of the rule-merging optimizer of nftables (src/src/optimize.c).   *)
(*                                                                         *)
(* A chain is a list of rules, a rule a list of statements.  Statements    *)
(* and expressions are records that carry the fields optimize.c reads.     *)
(* A pointer to a statement is the statement's id; NULL is 0.  A NULL      *)
(* expression pointer is the record NullExpr.  C arrays keep the 0-based   *)
(* indices of the code and are stored in 1-based sequences.                *)
(***************************************************************************)
EXTENDS Integers, Sequences, FiniteSets, TLC

MAX_STMTS == 32

(* Bounds of the enumerated inputs. *)
MaxRules == 3
MaxRuleLen == 2
MaxScanRules == 6

NullExpr == [etype |-> "NULL"]

Range(s) == {s[x] : x \in 1..Len(s)}

(***************************************************************************)
(* Statement equality                                                      *)
(***************************************************************************)

(* The inner switch of __stmt_type_eq on the left-hand side of a match. *)
expr_left_eq(left_a, left_b) ==
  IF left_a.etype # left_b.etype THEN FALSE
  ELSE CASE left_a.etype = "EXPR_PAYLOAD" ->
              /\ left_a.desc = left_b.desc
              /\ left_a.tmpl = left_b.tmpl
         [] left_a.etype = "EXPR_EXTHDR" ->
              /\ left_a.desc = left_b.desc
              /\ left_a.tmpl = left_b.tmpl
         [] left_a.etype = "EXPR_META" ->
              /\ left_a.key = left_b.key
              /\ left_a.base = left_b.base
         [] left_a.etype = "EXPR_CT" ->
              /\ left_a.key = left_b.key
              /\ left_a.base = left_b.base
              /\ left_a.direction = left_b.direction
              /\ left_a.nfproto = left_b.nfproto
         [] left_a.etype = "EXPR_RT" ->
              left_a.key = left_b.key
         [] left_a.etype = "EXPR_SOCKET" ->
              /\ left_a.key = left_b.key
              /\ left_a.level = left_b.level
         [] OTHER -> FALSE

(* case STMT_VERDICT of __stmt_type_eq. *)
verdict_eq(expr_a, expr_b) ==
  IF expr_a.verdict # expr_b.verdict THEN FALSE
  ELSE IF expr_a.chain # NullExpr /\ expr_b.chain # NullExpr
       THEN IF expr_a.chain.etype # expr_b.chain.etype THEN FALSE
            ELSE IF /\ expr_a.chain.etype = "EXPR_VALUE"
                    /\ expr_a.chain.identifier # expr_b.chain.identifier
                 THEN FALSE
                 ELSE TRUE
       ELSE IF expr_a.chain # NullExpr \/ expr_b.chain # NullExpr
            THEN FALSE
            ELSE TRUE

__stmt_type_eq(stmt_a, stmt_b) ==
  IF stmt_a.ops # stmt_b.ops THEN FALSE
  ELSE CASE stmt_a.ops = "STMT_EXPRESSION" ->
              expr_left_eq(stmt_a.expr.left, stmt_b.expr.left)
         [] stmt_a.ops \in {"STMT_COUNTER", "STMT_NOTRACK"} -> TRUE
         [] stmt_a.ops = "STMT_VERDICT" ->
              verdict_eq(stmt_a.expr, stmt_b.expr)
         [] stmt_a.ops = "STMT_LIMIT" ->
              ~ \/ stmt_a.limit.rate # stmt_b.limit.rate
                \/ stmt_a.limit.unit # stmt_b.limit.unit
                \/ stmt_a.limit.burst # stmt_b.limit.burst
                \/ stmt_a.limit.type # stmt_b.limit.type
                \/ stmt_a.limit.flags # stmt_b.limit.flags
         [] stmt_a.ops = "STMT_LOG" ->
              ~ \/ stmt_a.log.snaplen # stmt_b.log.snaplen
                \/ stmt_a.log.group # stmt_b.log.group
                \/ stmt_a.log.qthreshold # stmt_b.log.qthreshold
                \/ stmt_a.log.level # stmt_b.log.level
                \/ stmt_a.log.logflags # stmt_b.log.logflags
                \/ stmt_a.log.flags # stmt_b.log.flags
                \/ stmt_a.log.prefix.etype # "EXPR_VALUE"
                \/ stmt_b.log.prefix.etype # "EXPR_VALUE"
                \/ stmt_a.log.prefix.value # stmt_b.log.prefix.value
         [] stmt_a.ops = "STMT_REJECT" ->
              IF stmt_a.reject.expr # NullExpr \/ stmt_b.reject.expr # NullExpr
              THEN FALSE
              ELSE ~ \/ stmt_a.reject.family # stmt_b.reject.family
                     \/ stmt_a.reject.type # stmt_b.reject.type
                     \/ stmt_a.reject.icmp_code # stmt_b.reject.icmp_code
         [] OTHER -> FALSE

(***************************************************************************)
(* Selector registry                                                       *)
(***************************************************************************)

(* stmt_type_find: is the statement equal to a key of the registry? *)
stmt_type_find(ctx_stmt, stmt) ==
  \E x \in 1..Len(ctx_stmt) : __stmt_type_eq(stmt, ctx_stmt[x])

(* The clone rule_collect_stmts stores as the key of a new column.  The   *)
(* clone comes zeroed from stmt_alloc; only the cases of the switch copy  *)
(* fields, so a reject clone keeps zeroed reject fields.                   *)
stmt_clone(stmt) ==
  CASE stmt.ops \in {"STMT_EXPRESSION", "STMT_VERDICT"} ->
         [id |-> 0, ops |-> stmt.ops, expr |-> stmt.expr]
    [] stmt.ops \in {"STMT_COUNTER", "STMT_NOTRACK"} ->
         [id |-> 0, ops |-> stmt.ops]
    [] stmt.ops = "STMT_LIMIT" ->
         [id |-> 0, ops |-> stmt.ops, limit |-> stmt.limit]
    [] stmt.ops = "STMT_LOG" ->
         [id |-> 0, ops |-> stmt.ops, log |-> stmt.log]
    [] stmt.ops = "STMT_REJECT" ->
         [id |-> 0, ops |-> stmt.ops,
          reject |-> [expr |-> NullExpr, family |-> 0, type |-> 0,
                      icmp_code |-> 0]]
    [] OTHER ->
         [id |-> 0, ops |-> stmt.ops]

(* rule_collect_stmts from statement p of the rule on.  ret = -1 as soon  *)
(* as the registry holds MAX_STMTS keys.                                   *)
RECURSIVE collect_from(_, _, _)
collect_from(ctx_stmt, stmts, p) ==
  IF p > Len(stmts) THEN [stmt |-> ctx_stmt, ret |-> 0]
  ELSE IF stmt_type_find(ctx_stmt, stmts[p])
       THEN collect_from(ctx_stmt, stmts, p + 1)
       ELSE LET added == Append(ctx_stmt, stmt_clone(stmts[p]))
            IN  IF Len(added) >= MAX_STMTS
                THEN [stmt |-> added, ret |-> 0 - 1]
                ELSE collect_from(added, stmts, p + 1)

rule_collect_stmts(ctx_stmt, rule) == collect_from(ctx_stmt, rule.stmts, 1)

(* Step 1 of chain_optimize from rule r of the list on. *)
RECURSIVE collect_rules(_, _, _)
collect_rules(ctx_stmt, rs, r) ==
  IF r > Len(rs) THEN [stmt |-> ctx_stmt, ret |-> 0]
  ELSE LET c == rule_collect_stmts(ctx_stmt, rs[r])
       IN  IF c.ret < 0 THEN c
           ELSE collect_rules(c.stmt, rs, r + 1)

(***************************************************************************)
(* Statement matrix                                                        *)
(***************************************************************************)

(* cmd_stmt_find_in_stmt_matrix: first column whose key equals the        *)
(* statement, column 0 when there is none.                                 *)
cmd_stmt_find_in_stmt_matrix(ctx_stmt, stmt) ==
  LET hits == {x \in 1..Len(ctx_stmt) : __stmt_type_eq(stmt, ctx_stmt[x])}
  IN  IF hits = {} THEN 0
      ELSE (CHOOSE x \in hits : \A y \in hits : x <= y) - 1

(* rule_build_stmt_matrix_stmts: the row of one rule, filled statement by *)
(* statement from statement p on; a later statement overwrites the cell.   *)
RECURSIVE build_row_from(_, _, _, _)
build_row_from(ctx_stmt, row, stmts, p) ==
  IF p > Len(stmts) THEN row
  ELSE LET k == cmd_stmt_find_in_stmt_matrix(ctx_stmt, stmts[p])
       IN  build_row_from(ctx_stmt, [row EXCEPT ![k + 1] = stmts[p].id],
                          stmts, p + 1)

(* A row of the zeroed matrix.  The code allocates MAX_STMTS cells a row; *)
(* the cells past the registry size stay NULL and are read as such by     *)
(* Cell below.                                                             *)
EmptyRow(ctx_stmt) == [x \in 1..Len(ctx_stmt) |-> 0]

rule_build_stmt_matrix_stmts(ctx_stmt, rule) ==
  build_row_from(ctx_stmt, EmptyRow(ctx_stmt), rule.stmts, 1)

(* ctx->stmt_matrix[i][k] *)
Cell(matrix, i, k) ==
  IF k + 1 <= Len(matrix[i + 1]) THEN matrix[i + 1][k + 1] ELSE 0

(* The statement a non-NULL pointer refers to. *)
HasStmt(rule, id) == \E p \in 1..Len(rule.stmts) : rule.stmts[p].id = id
Deref(rs, id) ==
  LET r == CHOOSE r \in 1..Len(rs) : HasStmt(rs[r], id)
      p == CHOOSE p \in 1..Len(rs[r].stmts) : rs[r].stmts[p].id = id
  IN  rs[r].stmts[p]

stmt_type_eq(rs, a, b) ==
  IF a = 0 /\ b = 0 THEN TRUE
  ELSE IF a = 0 THEN FALSE
  ELSE IF b = 0 THEN FALSE
  ELSE __stmt_type_eq(Deref(rs, a), Deref(rs, b))

rules_eq(rs, matrix, num_stmts, i, j) ==
  \A k \in 0..(num_stmts - 1) :
    stmt_type_eq(rs, Cell(matrix, i, k), Cell(matrix, j, k))

(***************************************************************************)
(* Adjacency scan (step 3 of chain_optimize)                               *)
(***************************************************************************)

(* One zeroed struct merge. *)
ZeroMerge == [rule_from |-> 0, num_rules |-> 0, stmt |-> <<>>]

(* scan_break resuming one row too far. *)
scan_break_skips_row(i, j, merge, num_merges) ==
  [i |-> j, j |-> j, merge |-> merge,
   num_merges |-> IF merge[num_merges + 1].num_rules > 0
                  THEN num_merges + 1 ELSE num_merges]

(* Body of the inner loop when rules_eq(i, j) fails: close the open run   *)
(* and leave the loop with i = j - 1.                                      *)
scan_break(i, j, merge, num_merges) ==
  [i |-> j - 1, j |-> j, merge |-> merge,
   num_merges |-> IF merge[num_merges + 1].num_rules > 0
                  THEN num_merges + 1 ELSE num_merges]

(* Body of the inner loop when rules_eq(i, j) holds: open or extend the   *)
(* run.                                                                    *)
scan_extend(i, j, merge, num_merges) ==
  IF merge[num_merges + 1].num_rules > 0
  THEN [merge EXCEPT ![num_merges + 1].num_rules = @ + 1]
  ELSE [merge EXCEPT ![num_merges + 1].rule_from = i,
                     ![num_merges + 1].num_rules = 2]

(* The test after the inner loop: the run reaches the last row. *)
scan_at_end(j, num_rules, merge, num_merges) ==
  j = num_rules /\ merge[num_merges + 1].num_rules > 0

(* for (j = i + 1; j < ctx->num_rules; j++) *)
RECURSIVE scan_inner(_, _, _, _, _, _, _)
scan_inner(rs, matrix, num_stmts, i, j, merge, num_merges) ==
  IF j >= Len(matrix)
  THEN [i |-> i, j |-> j, merge |-> merge, num_merges |-> num_merges]
  ELSE IF ~rules_eq(rs, matrix, num_stmts, i, j)
       THEN scan_break(i, j, merge, num_merges)
       ELSE scan_inner(rs, matrix, num_stmts, i, j + 1,
                       scan_extend(i, j, merge, num_merges), num_merges)

(* for (i = 0; i < ctx->num_rules; i++) *)
RECURSIVE scan_outer(_, _, _, _, _, _)
scan_outer(rs, matrix, num_stmts, i, merge, num_merges) ==
  IF i >= Len(matrix)
  THEN [merge |-> merge, num_merges |-> num_merges]
  ELSE LET in == scan_inner(rs, matrix, num_stmts, i, i + 1, merge,
                            num_merges)
       IN  IF scan_at_end(in.j, Len(matrix), in.merge, in.num_merges)
           THEN [merge |-> in.merge, num_merges |-> in.num_merges + 1]
           ELSE scan_outer(rs, matrix, num_stmts, in.i + 1, in.merge,
                           in.num_merges)

(***************************************************************************)
(* Merge planner and rewriter (step 4 of chain_optimize)                   *)
(***************************************************************************)

(* The columns of row i that hold an expression statement, in column      *)
(* order: merge[k].stmt after the loop over m.                             *)
RECURSIVE plan_from(_, _, _, _, _)
plan_from(rs, matrix, num_stmts, i, m) ==
  IF m >= num_stmts THEN <<>>
  ELSE IF Cell(matrix, i, m) = 0
       THEN plan_from(rs, matrix, num_stmts, i, m + 1)
       ELSE IF Deref(rs, Cell(matrix, i, m)).ops = "STMT_EXPRESSION"
            THEN <<m>> \o plan_from(rs, matrix, num_stmts, i, m + 1)
            ELSE plan_from(rs, matrix, num_stmts, i, m + 1)

merge_plan(rs, matrix, num_stmts, i) == plan_from(rs, matrix, num_stmts, i, 0)

(* merge->stmt[0]; the array is zeroed, so it is column 0 when the        *)
(* planner recorded no column.                                             *)
MergeStmt0(mstmt) == IF Len(mstmt) = 0 THEN 0 ELSE mstmt[1]

set_elem_expr_alloc(key) == [etype |-> "EXPR_SET_ELEM", key |-> key]

set_expr_alloc(elems) ==
  [etype |-> "EXPR_SET", set_flags |-> {"NFT_SET_ANONYMOUS"},
   expressions |-> elems]

concat_expr_alloc(exprs) == [etype |-> "EXPR_CONCAT", expressions |-> exprs]

(* Store a rewritten statement in place of the one with the same id. *)
PutStmt(rs, stmt) ==
  [r \in 1..Len(rs) |->
     [rs[r] EXCEPT !.stmts =
        [p \in 1..Len(rs[r].stmts) |->
           IF rs[r].stmts[p].id = stmt.id THEN stmt ELSE rs[r].stmts[p]]]]

(* list_del + stmt_free of the statements whose ids are in dead. *)
DelStmts(rs, dead) ==
  [r \in 1..Len(rs) |->
     [rs[r] EXCEPT !.stmts =
        SelectSeq(rs[r].stmts, LAMBDA s : s.id \notin dead)]]

(* merge_stmts_set with the loop stopping before row to. *)
merge_stmts_set_misses_last(rs, matrix, from, to, mstmt) ==
  set_expr_alloc(
    <<set_elem_expr_alloc(
        Deref(rs, Cell(matrix, from, MergeStmt0(mstmt))).expr.right)>>
    \o [x \in 1..(to - from - 1) |->
          set_elem_expr_alloc(
            Deref(rs, Cell(matrix, from + x, MergeStmt0(mstmt))).expr.right)])

(* The set merge_stmts builds: row from first, then rows from+1..to. *)
merge_stmts_set(rs, matrix, from, to, mstmt) ==
  set_expr_alloc(
    <<set_elem_expr_alloc(
        Deref(rs, Cell(matrix, from, MergeStmt0(mstmt))).expr.right)>>
    \o [x \in 1..(to - from) |->
          set_elem_expr_alloc(
            Deref(rs, Cell(matrix, from + x, MergeStmt0(mstmt))).expr.right)])

merge_stmts(rs, matrix, from, to, mstmt) ==
  LET stmt_a == Deref(rs, Cell(matrix, from, MergeStmt0(mstmt)))
  IN  PutStmt(rs, [stmt_a EXCEPT !.expr.right =
                     merge_stmts_set(rs, matrix, from, to, mstmt)])

(* The concatenation of selectors merge_concat_stmts builds. *)
merge_concat_left(rs, matrix, from, mstmt) ==
  concat_expr_alloc(
    [x \in 1..Len(mstmt) |->
       Deref(rs, Cell(matrix, from, mstmt[x])).expr.left])

(* merge_concat_set walking the columns backwards. *)
merge_concat_set_reversed(rs, matrix, from, to, mstmt) ==
  set_expr_alloc(
    [x \in 1..(to - from + 1) |->
       set_elem_expr_alloc(
         concat_expr_alloc(
           [y \in 1..Len(mstmt) |->
              Deref(rs, Cell(matrix, from + x - 1,
                             mstmt[Len(mstmt) - y + 1])).expr.right]))])

(* The set of concatenated values merge_concat_stmts builds. *)
merge_concat_set(rs, matrix, from, to, mstmt) ==
  set_expr_alloc(
    [x \in 1..(to - from + 1) |->
       set_elem_expr_alloc(
         concat_expr_alloc(
           [y \in 1..Len(mstmt) |->
              Deref(rs, Cell(matrix, from + x - 1, mstmt[y])).expr.right]))])

(* The statements merge_concat_stmts unlinks from row from. *)
merge_concat_dead(matrix, from, mstmt) ==
  {Cell(matrix, from, mstmt[x]) : x \in 2..Len(mstmt)}

merge_concat_stmts(rs, matrix, from, to, mstmt) ==
  LET stmt == Deref(rs, Cell(matrix, from, mstmt[1]))
      new  == [stmt EXCEPT
                 !.expr.left = merge_concat_left(rs, matrix, from, mstmt),
                 !.expr.right = merge_concat_set(rs, matrix, from, to, mstmt)]
  IN  DelStmts(PutStmt(rs, new), merge_concat_dead(matrix, from, mstmt))

(* retired_rules with the loop stopping before row to. *)
retired_rules_keeps_last(ctx_rule, from, to) ==
  {ctx_rule[x + 1] : x \in (from + 1)..(to - 1)}

(* The rules merge_rules unlinks and frees: ctx->rule[from+1..to]. *)
retired_rules(ctx_rule, from, to) ==
  {ctx_rule[x + 1] : x \in (from + 1)..to}

merge_rules(rs, matrix, ctx_rule, from, to, mstmt) ==
  LET merged == IF Len(mstmt) > 1
                THEN merge_concat_stmts(rs, matrix, from, to, mstmt)
                ELSE merge_stmts(rs, matrix, from, to, mstmt)
  IN  SelectSeq(merged,
                LAMBDA r : r.id \notin retired_rules(ctx_rule, from, to))

(***************************************************************************)
(* Inputs: the chains the optimizer is run on                              *)
(***************************************************************************)

ValueExpr(v) == [etype |-> "EXPR_VALUE", value |-> v]

(* A match statement: left-hand selector, right-hand value v. *)
MatchStmt(id, left, v) ==
  [id |-> id, ops |-> "STMT_EXPRESSION",
   expr |-> [etype |-> "EXPR_RELATIONAL", left |-> left,
             right |-> ValueExpr(v)]]

VerdictStmt(id, verdict, chain) ==
  [id |-> id, ops |-> "STMT_VERDICT",
   expr |-> [etype |-> "EXPR_VERDICT", verdict |-> verdict, chain |-> chain]]

MetaLeft(key) == [etype |-> "EXPR_META", key |-> key, base |-> 0]

(* The statement a token of a rule template stands for.  The right-hand   *)
(* value of a match is the statement's id, so all values differ.  A log   *)
(* statement carries a prefix; "nat" and "fib" are a statement kind and a *)
(* selector kind that __stmt_type_eq does not handle.                      *)
MkStmt(tok, id) ==
  CASE tok = "meta" -> MatchStmt(id, MetaLeft(1), id)
    [] tok = "payload" ->
         MatchStmt(id, [etype |-> "EXPR_PAYLOAD", desc |-> 1, tmpl |-> 1], id)
    [] tok = "ct" ->
         MatchStmt(id, [etype |-> "EXPR_CT", key |-> 1, base |-> 0,
                        direction |-> 0, nfproto |-> 0], id)
    [] tok = "fib" -> MatchStmt(id, [etype |-> "EXPR_FIB", flags |-> 1], id)
    [] tok = "counter" -> [id |-> id, ops |-> "STMT_COUNTER"]
    [] tok = "nat" -> [id |-> id, ops |-> "STMT_NAT"]
    [] tok = "accept" -> VerdictStmt(id, 1, NullExpr)
    [] tok = "drop" -> VerdictStmt(id, 0, NullExpr)
    [] tok = "jump x" ->
         VerdictStmt(id, 3, [etype |-> "EXPR_VALUE", identifier |-> "x"])
    [] tok = "jump y" ->
         VerdictStmt(id, 3, [etype |-> "EXPR_VALUE", identifier |-> "y"])
    [] tok = "jump $x" ->
         VerdictStmt(id, 3, [etype |-> "EXPR_VARIABLE", sym |-> "x"])
    [] tok = "jump $y" ->
         VerdictStmt(id, 3, [etype |-> "EXPR_VARIABLE", sym |-> "y"])
    [] tok = "limit" ->
         [id |-> id, ops |-> "STMT_LIMIT",
          limit |-> [rate |-> 10, unit |-> 1, burst |-> 5, type |-> 0,
                     flags |-> 0]]
    [] tok = "log" ->
         [id |-> id, ops |-> "STMT_LOG",
          log |-> [snaplen |-> 0, group |-> 0, qthreshold |-> 0, level |-> 4,
                   logflags |-> 0, flags |-> 1, prefix |-> ValueExpr(7)]]
    [] tok = "reject" ->
         [id |-> id, ops |-> "STMT_REJECT",
          reject |-> [expr |-> NullExpr, family |-> 0, type |-> 0,
                      icmp_code |-> 0]]
    [] tok = "reject tcp reset" ->
         [id |-> id, ops |-> "STMT_REJECT",
          reject |-> [expr |-> NullExpr, family |-> 0, type |-> 1,
                      icmp_code |-> 0]]

StmtId(r, p) == r * 100 + p

MkRule(tpl, r) ==
  [id |-> r, stmts |-> [p \in 1..Len(tpl) |-> MkStmt(tpl[p], StmtId(r, p))]]

MkChain(tpls) == [r \in 1..Len(tpls) |-> MkRule(tpls[r], r)]

(* Every rule of up to MaxRuleLen statements over the basic tokens ... *)
BasicToks == {"meta", "payload", "counter"}

BasicRules == UNION {[1..n -> BasicToks] : n \in 1..MaxRuleLen}

(* ... and a few rules with the other statement kinds. *)
ExtraRules ==
  { <<"meta", "payload", "counter">>,
    <<"accept">>,
    <<"nat", "meta">>,
    <<"meta", "jump $x">>,
    <<"meta", "jump $y">>,
    <<"meta", "jump x">>,
    <<"meta", "jump y">>,
    <<"ct", "reject tcp reset">>,
    <<"meta", "reject">>,
    <<"fib", "limit", "log", "drop">> }

RuleTemplates == BasicRules \cup ExtraRules

(* Chains of up to MaxRules rules that alternate between two templates,  *)
(* the first rule being of the first template.                             *)
PairChain(a, b, pattern) ==
  [r \in DOMAIN pattern |-> IF pattern[r] THEN a ELSE b]

PairPatterns ==
  UNION {{f \in [1..n -> BOOLEAN] : n > 0 => f[1]} : n \in 0..MaxRules}

(* Every chain of up to MaxRules rules over a few templates. *)
CoreRules ==
  { <<"meta">>,
    <<"counter">>,
    <<"meta", "counter">>,
    <<"nat", "meta">>,
    <<"ct", "reject tcp reset">>,
    <<"meta", "payload", "counter">> }

CoreChainTemplates == UNION {[1..n -> CoreRules] : n \in 0..MaxRules}

(* Chains of n rules that each match a meta key of their own, followed by *)
(* a second rule on the last key: n distinct columns and one merge run.    *)
WideChain(n) ==
  [r \in 1..(n + 1) |->
     [id |-> r,
      stmts |-> <<MatchStmt(StmtId(r, 1),
                            MetaLeft(IF r > n THEN n ELSE r),
                            StmtId(r, 1))>>]]

WideChainSizes == (MAX_STMTS - 2)..(MAX_STMTS + 1)

(* Longer chains of one-statement rules, for the adjacency scan. *)
ScanRules == {<<"meta">>, <<"ct">>, <<"accept">>}

ScanChainTemplates ==
  UNION {[1..n -> ScanRules] : n \in (MaxRules + 1)..MaxScanRules}

(***************************************************************************)
(* State machine of chain_optimize                                         *)
(***************************************************************************)

VARIABLES
  rules,        \* the chain's rule list
  input,        \* the rule list the current pass started from
  pass,         \* 1 for the first run of the optimizer, 2 for the second
  pc,           \* "step1" .. "step4", "done", "abort"
  ctx_stmt,     \* ctx->stmt[0 .. num_stmts-1], the registry keys
  stmt_matrix,  \* ctx->stmt_matrix
  ctx_rule,     \* ctx->rule
  merge,        \* the merge array
  num_merges,
  k,            \* index of the next merge of step 4
  ret

vars == <<rules, input, pass, pc, ctx_stmt, stmt_matrix, ctx_rule, merge,
          num_merges, k, ret>>

num_stmts == Len(ctx_stmt)

Init ==
  /\ \/ \E a \in RuleTemplates : \E b \in RuleTemplates :
          \E pattern \in PairPatterns : rules = MkChain(PairChain(a, b, pattern))
     \/ \E t \in CoreChainTemplates : rules = MkChain(t)
     \/ \E t \in ScanChainTemplates : rules = MkChain(t)
     \/ \E n \in WideChainSizes : rules = WideChain(n)
  /\ input = rules
  /\ pass = 1
  /\ pc = "step1"
  /\ ctx_stmt = <<>>
  /\ stmt_matrix = <<>>
  /\ ctx_rule = <<>>
  /\ merge = <<>>
  /\ num_merges = 0
  /\ k = 0
  /\ ret = 0

(* Step 1: every rule_collect_stmts call returned 0. *)
Step1Collect ==
  /\ pc = "step1"
  /\ LET c == collect_rules(<<>>, rules, 1)
     IN  /\ c.ret = 0
         /\ ctx_stmt' = c.stmt
  /\ pc' = "step2"
  /\ UNCHANGED <<rules, input, pass, stmt_matrix, ctx_rule, merge,
                 num_merges, k, ret>>

(* Step 1: a rule_collect_stmts call returned -1, goto err. *)
Step1Overflow ==
  /\ pc = "step1"
  /\ LET c == collect_rules(<<>>, rules, 1)
     IN  /\ c.ret < 0
         /\ ctx_stmt' = c.stmt
         /\ ret' = c.ret
  /\ pc' = "done"
  /\ UNCHANGED <<rules, input, pass, stmt_matrix, ctx_rule, merge,
                 num_merges, k>>

(* Allocation of the zeroed matrix and merge array, and step 2. *)
Step2Build ==
  /\ pc = "step2"
  /\ stmt_matrix' = [r \in 1..Len(rules) |->
                       rule_build_stmt_matrix_stmts(ctx_stmt, rules[r])]
  /\ ctx_rule' = [r \in 1..Len(rules) |-> rules[r].id]
  /\ merge' = [r \in 1..Len(rules) |-> ZeroMerge]
  /\ pc' = "step3"
  /\ UNCHANGED <<rules, input, pass, ctx_stmt, num_merges, k, ret>>

(* Step 3: the adjacency scan. *)
Step3Scan ==
  /\ pc = "step3"
  /\ LET s == scan_outer(rules, stmt_matrix, num_stmts, 0, merge, 0)
     IN  /\ merge' = s.merge
         /\ num_merges' = s.num_merges
  /\ k' = 0
  /\ pc' = "step4"
  /\ UNCHANGED <<rules, input, pass, ctx_stmt, stmt_matrix, ctx_rule, ret>>

(* The columns the planner records for merge k. *)
Planned == merge_plan(rules, stmt_matrix, num_stmts, merge[k + 1].rule_from)

(* The statement merge_stmts asserts on: ctx->stmt_matrix[from][stmt[0]]. *)
AssertedCell == Cell(stmt_matrix, merge[k + 1].rule_from, MergeStmt0(Planned))

Step4Apply ==
  /\ merge' = [merge EXCEPT ![k + 1].stmt = Planned]
  /\ rules' = merge_rules(rules, stmt_matrix, ctx_rule,
                          merge[k + 1].rule_from,
                          merge[k + 1].rule_from + merge[k + 1].num_rules - 1,
                          Planned)
  /\ k' = k + 1
  /\ UNCHANGED <<input, pass, pc, ctx_stmt, stmt_matrix, ctx_rule,
                 num_merges, ret>>

(* Step 4, one merge with more than one participating column. *)
Step4MergeConcat ==
  /\ pc = "step4"
  /\ k < num_merges
  /\ Len(Planned) > 1
  /\ Step4Apply

(* Step 4, one merge through merge_stmts; its assertion holds. *)
Step4MergeSet ==
  /\ pc = "step4"
  /\ k < num_merges
  /\ Len(Planned) <= 1
  /\ AssertedCell # 0
  /\ Deref(rules, AssertedCell).ops = "STMT_EXPRESSION"
  /\ Step4Apply

(* Step 4, merge_stmts dereferences a NULL cell or its assertion fails:   *)
(* the process is aborted.                                                 *)
Step4AssertFail ==
  /\ pc = "step4"
  /\ k < num_merges
  /\ Len(Planned) <= 1
  /\ IF AssertedCell = 0 THEN TRUE
     ELSE Deref(rules, AssertedCell).ops # "STMT_EXPRESSION"
  /\ merge' = [merge EXCEPT ![k + 1].stmt = Planned]
  /\ pc' = "abort"
  /\ UNCHANGED <<rules, input, pass, ctx_stmt, stmt_matrix, ctx_rule,
                 num_merges, k, ret>>

(* End of step 4: ret = 0.  The context is freed; the variables keep its  *)
(* last contents.                                                          *)
Step4Done ==
  /\ pc = "step4"
  /\ k = num_merges
  /\ ret' = 0
  /\ pc' = "done"
  /\ UNCHANGED <<rules, input, pass, ctx_stmt, stmt_matrix, ctx_rule, merge,
                 num_merges, k>>

(* The optimizer is run again on the rule list the first run produced. *)
OptimizeAgain ==
  /\ pc = "done"
  /\ pass = 1
  /\ pass' = 2
  /\ input' = rules
  /\ pc' = "step1"
  /\ ctx_stmt' = <<>>
  /\ stmt_matrix' = <<>>
  /\ ctx_rule' = <<>>
  /\ merge' = <<>>
  /\ num_merges' = 0
  /\ k' = 0
  /\ ret' = 0
  /\ UNCHANGED rules

Next ==
  \/ Step1Collect
  \/ Step1Overflow
  \/ Step2Build
  \/ Step3Scan
  \/ Step4MergeConcat
  \/ Step4MergeSet
  \/ Step4AssertFail
  \/ Step4Done
  \/ OptimizeAgain

Spec == Init /\ [][Next]_vars

TypeOK ==
  /\ pc \in {"step1", "step2", "step3", "step4", "done", "abort"}
  /\ pass \in {1, 2}
  /\ num_merges <= Len(merge)

(***************************************************************************)
(* Properties                                                              *)
(***************************************************************************)

(* The scan of the current pass has run (and the pass was not abandoned). *)
Scanned == pc \in {"step4", "abort"} \/ (pc = "done" /\ ret = 0)

(* The merge runs the scan produced, and the ones step 4 has rewritten. *)
Runs == 1..num_merges
Rewritten == 1..k
RunFrom(m) == merge[m].rule_from
RunTo(m) == merge[m].rule_from + merge[m].num_rules - 1
RunRows(m) == RunFrom(m)..RunTo(m)

(* Row i of the chain as the pass received it, and as it is now. *)
InputRule(i) == input[i + 1]
CurrentRule(i) == rules[CHOOSE x \in 1..Len(rules) : rules[x].id = ctx_rule[i + 1]]

(* The statement cell (i, c) pointed to when the matrix was built. *)
InputCell(i, c) == Deref(input, Cell(stmt_matrix, i, c))

SupportedStmtKinds ==
  {"STMT_EXPRESSION", "STMT_COUNTER", "STMT_NOTRACK", "STMT_VERDICT",
   "STMT_LIMIT", "STMT_LOG", "STMT_REJECT"}

SupportedSelectors ==
  {"EXPR_PAYLOAD", "EXPR_EXTHDR", "EXPR_META", "EXPR_CT", "EXPR_RT",
   "EXPR_SOCKET"}

Unsupported(stmt) ==
  \/ stmt.ops \notin SupportedStmtKinds
  \/ /\ stmt.ops = "STMT_EXPRESSION"
     /\ stmt.expr.left.etype \notin SupportedSelectors

HasUnsupported(rule) == \E p \in 1..Len(rule.stmts) : Unsupported(rule.stmts[p])

(* C1: a rule that contains a statement of an unsupported kind is never   *)
(* put in a merge run, so it is neither rewritten nor removed.             *)
C1_UnsupportedNeverMerged ==
  Scanned =>
    /\ \A m \in Runs : \A i \in RunRows(m) : ~HasUnsupported(InputRule(i))
    /\ \A i \in 0..(Len(input) - 1) :
         HasUnsupported(InputRule(i)) =>
           \E x \in 1..Len(rules) : rules[x] = InputRule(i)

(* The rows step 4 has removed so far: from+1..to of every rewritten run. *)
RetiredRows == UNION {(RunFrom(m) + 1)..RunTo(m) : m \in Rewritten}

SurvivingRows ==
  SelectSeq([x \in 1..Len(input) |-> x - 1], LAMBDA i : i \notin RetiredRows)

(* C2: the rule list is the input list with exactly the rows from+1..to   *)
(* of each rewritten run removed; the other rules are present in their    *)
(* input order, a run is represented by its first rule at that rule's     *)
(* position, and the rules outside the runs are unchanged.                 *)
C2_OnlyRunTailsRemoved ==
  Scanned =>
    /\ Len(rules) = Len(SurvivingRows)
    /\ \A x \in 1..Len(SurvivingRows) :
         /\ rules[x].id = InputRule(SurvivingRows[x]).id
         /\ (\A m \in Rewritten : SurvivingRows[x] # RunFrom(m))
              => rules[x] = InputRule(SurvivingRows[x])
    /\ \A m \in Rewritten :
         \E x \in 1..Len(SurvivingRows) : SurvivingRows[x] = RunFrom(m)

C2_Witness ==
  /\ pc = "done"
  /\ ret = 0
  /\ num_merges = 2
  /\ Len(input) = 6
  /\ Len(rules) = 3

(* C3: a merge on one participating column C leaves in row from's column  *)
(* C statement an anonymous set of one element per row of the run, in row *)
(* order, the i-th wrapping the right-hand side of the i-th row's column  *)
(* C statement; its left-hand side and the other statements of row from   *)
(* are unchanged.                                                          *)
C3_SingleSelectorSet ==
  Scanned =>
    \A m \in Rewritten :
      Len(merge[m].stmt) = 1 =>
        LET c   == merge[m].stmt[1]
            old == InputCell(RunFrom(m), c)
            new == Deref(rules, old.id)
            set == new.expr.right
        IN  /\ set.etype = "EXPR_SET"
            /\ "NFT_SET_ANONYMOUS" \in set.set_flags
            /\ Len(set.expressions) = merge[m].num_rules
            /\ \A x \in 1..merge[m].num_rules :
                 /\ set.expressions[x].etype = "EXPR_SET_ELEM"
                 /\ set.expressions[x].key =
                      InputCell(RunFrom(m) + x - 1, c).expr.right
            /\ new.expr.left = old.expr.left
            /\ Len(CurrentRule(RunFrom(m)).stmts) =
                 Len(InputRule(RunFrom(m)).stmts)
            /\ \A p \in 1..Len(InputRule(RunFrom(m)).stmts) :
                 InputRule(RunFrom(m)).stmts[p].id # old.id =>
                   CurrentRule(RunFrom(m)).stmts[p] =
                     InputRule(RunFrom(m)).stmts[p]

C3_Witness ==
  /\ pc = "done"
  /\ ret = 0
  /\ \E m \in Runs :
       /\ Len(merge[m].stmt) = 1
       /\ merge[m].num_rules = 3
       /\ Len(InputRule(RunFrom(m)).stmts) = 2

(* C4: a merge on k >= 2 participating columns turns row from's statement *)
(* of the first participating column into a match of the concatenation of *)
(* row from's k left-hand sides, in column order, against an anonymous    *)
(* set of one element per row, in row order, each the concatenation of    *)
(* that row's k right-hand sides in column order; the statements of the   *)
(* other k-1 participating columns are removed from row from and every    *)
(* other statement of row from stays as it was.                            *)
C4_ConcatSet ==
  Scanned =>
    \A m \in Rewritten :
      Len(merge[m].stmt) >= 2 =>
        LET cols == merge[m].stmt
            old  == InputCell(RunFrom(m), cols[1])
            new  == Deref(rules, old.id)
            gone == {InputCell(RunFrom(m), cols[y]).id : y \in 2..Len(cols)}
            kept == SelectSeq(InputRule(RunFrom(m)).stmts,
                              LAMBDA st : st.id \notin gone)
        IN  /\ \A y \in 1..(Len(cols) - 1) : cols[y] < cols[y + 1]
            /\ new.expr.left.etype = "EXPR_CONCAT"
            /\ Len(new.expr.left.expressions) = Len(cols)
            /\ \A y \in 1..Len(cols) :
                 new.expr.left.expressions[y] =
                   InputCell(RunFrom(m), cols[y]).expr.left
            /\ new.expr.right.etype = "EXPR_SET"
            /\ "NFT_SET_ANONYMOUS" \in new.expr.right.set_flags
            /\ Len(new.expr.right.expressions) = merge[m].num_rules
            /\ \A x \in 1..merge[m].num_rules :
                 LET elem == new.expr.right.expressions[x]
                 IN  /\ elem.etype = "EXPR_SET_ELEM"
                     /\ elem.key.etype = "EXPR_CONCAT"
                     /\ Len(elem.key.expressions) = Len(cols)
                     /\ \A y \in 1..Len(cols) :
                          elem.key.expressions[y] =
                            InputCell(RunFrom(m) + x - 1, cols[y]).expr.right
            /\ Len(CurrentRule(RunFrom(m)).stmts) = Len(kept)
            /\ \A p \in 1..Len(kept) :
                 IF kept[p].id = old.id
                 THEN CurrentRule(RunFrom(m)).stmts[p] = new
                 ELSE CurrentRule(RunFrom(m)).stmts[p] = kept[p]

C4_Witness ==
  /\ pc = "done"
  /\ ret = 0
  /\ \E m \in Runs :
       /\ Len(merge[m].stmt) = 2
       /\ merge[m].num_rules = 3
       /\ \E p \in 1..Len(CurrentRule(RunFrom(m)).stmts) :
            CurrentRule(RunFrom(m)).stmts[p].ops = "STMT_COUNTER"

(* Matrix equality of two rows of the chain the pass received. *)
MatrixEq(i, j) == rules_eq(input, stmt_matrix, num_stmts, i, j)

(* The first row after i that is not matrix-equal to row i, the number of *)
(* rows when there is none.                                                *)
RunEnd(i) ==
  LET breaks == {j \in (i + 1)..(Len(input) - 1) : ~MatrixEq(i, j)}
  IN  IF breaks = {} THEN Len(input)
      ELSE CHOOSE j \in breaks : \A j2 \in breaks : j <= j2

(* The rows where a scan from row i starts or resumes. *)
RECURSIVE ScanStarts(_)
ScanStarts(i) ==
  IF i >= Len(input) THEN {} ELSE {i} \cup ScanStarts(RunEnd(i))

(* C5: the runs of the adjacency scan are disjoint and listed in          *)
(* increasing row order; each has at least two rows, all matrix-equal to  *)
(* its first row, and is maximal: the row after it is not matrix-equal to *)
(* its first row.  The scan resumes at that row, and a run that reaches   *)
(* the last row is emitted with its full length.                           *)
C5_RunsDisjointMaximal ==
  Scanned =>
    /\ \A m \in Runs :
         /\ merge[m].num_rules >= 2
         /\ RunTo(m) < Len(input)
         /\ \A i \in RunRows(m) : i # RunFrom(m) => MatrixEq(RunFrom(m), i)
         /\ RunTo(m) + 1 < Len(input) => ~MatrixEq(RunFrom(m), RunTo(m) + 1)
         /\ m < num_merges => RunTo(m) < RunFrom(m + 1)
    /\ \A i \in ScanStarts(0) :
         RunEnd(i) - i >= 2 =>
           \E m \in Runs : RunFrom(m) = i /\ RunTo(m) = RunEnd(i) - 1
    /\ \A m \in Runs : RunFrom(m) \in ScanStarts(0)

C5_Witness ==
  /\ Scanned
  /\ num_merges = 2
  /\ RunFrom(1) = 0
  /\ RunTo(1) + 1 < RunFrom(2)
  /\ RunTo(2) = Len(input) - 1
  /\ merge[2].num_rules = 3

(* C6: a second run of the optimizer on the rule list the first run       *)
(* produced finds no merge run and leaves the rule list as it was.         *)
C6_Idempotent ==
  (pass = 2 /\ pc \in {"step4", "done", "abort"}) =>
    /\ num_merges = 0
    /\ pc # "abort"
    /\ rules = input

MaxStmtsOf(rs) ==
  IF rs = <<>> THEN 0
  ELSE LET lens == {Len(rs[r].stmts) : r \in 1..Len(rs)}
       IN  CHOOSE n \in lens : \A n2 \in lens : n2 <= n

(* The statements of a chain that no key cloned from an earlier statement *)
(* equals: each of them opens a column of the registry.                    *)
StmtPositions(rs) ==
  {pos \in (1..Len(rs)) \X (1..MaxStmtsOf(rs)) : pos[2] <= Len(rs[pos[1]].stmts)}

Earlier(a, b) == a[1] < b[1] \/ (a[1] = b[1] /\ a[2] < b[2])

OpensColumn(rs, pos) ==
  \A before \in StmtPositions(rs) :
    Earlier(before, pos) =>
      ~__stmt_type_eq(rs[pos[1]].stmts[pos[2]],
                      stmt_clone(rs[before[1]].stmts[before[2]]))

DistinctColumns(rs) ==
  Cardinality({pos \in StmtPositions(rs) : OpensColumn(rs, pos)})

Abandoned == pc = "done" /\ ret < 0

(* C7: the pass is abandoned for registry overflow, with every rule left  *)
(* untouched, exactly when the chain yields more than MAX_STMTS (32)      *)
(* distinct columns; with 32 or fewer it goes on to build, scan and merge. *)
C7_AbandonedIffMoreThan32 ==
  pc # "step1" =>
    /\ Abandoned <=> DistinctColumns(input) > MAX_STMTS
    /\ Abandoned => rules = input

ChainTarget(stmt) == stmt.ops = "STMT_VERDICT" /\ stmt.expr.chain # NullExpr

IdentifierTarget(stmt) ==
  ChainTarget(stmt) /\ stmt.expr.chain.etype = "EXPR_VALUE"

StmtsOf(rs) == UNION {Range(rs[r].stmts) : r \in 1..Len(rs)}

(* C8: two verdict statements that both carry a chain target are equal    *)
(* only if both targets are identifier values with equal names, so rules  *)
(* whose verdict targets a chain by a non-identifier expression are never *)
(* merged.                                                                 *)
C8_ChainTargetsByIdentifier ==
  Scanned =>
    /\ \A a \in StmtsOf(input) : \A b \in StmtsOf(input) :
         (a.id # b.id /\ ChainTarget(a) /\ ChainTarget(b)
            /\ __stmt_type_eq(a, b)) =>
           /\ IdentifierTarget(a)
           /\ IdentifierTarget(b)
           /\ a.expr.chain.identifier = b.expr.chain.identifier
    /\ \A m \in Runs : \A i \in RunRows(m) :
         \A p \in 1..Len(InputRule(i).stmts) :
           ChainTarget(InputRule(i).stmts[p]) =>
             IdentifierTarget(InputRule(i).stmts[p])

MatrixBuilt == pc \in {"step3", "step4", "abort"} \/ (pc = "done" /\ ret = 0)

(* C9: after registry fill and matrix build every populated cell (r, s)   *)
(* holds a statement of rule r that is statement-equal to the key of      *)
(* column s, every statement of a supported kind is statement-equal to    *)
(* the key of some column, and the key cloned from a statement is         *)
(* statement-equal to it, so nothing is stored by the not-found fallback.  *)
C9_CellsMatchColumnKeys ==
  MatrixBuilt =>
    \A r \in 0..(Len(input) - 1) :
      /\ \A s \in 0..(num_stmts - 1) :
           Cell(stmt_matrix, r, s) # 0 =>
             /\ HasStmt(InputRule(r), Cell(stmt_matrix, r, s))
             /\ __stmt_type_eq(InputCell(r, s), ctx_stmt[s + 1])
      /\ \A p \in 1..Len(InputRule(r).stmts) :
           ~Unsupported(InputRule(r).stmts[p]) =>
             /\ stmt_type_find(ctx_stmt, InputRule(r).stmts[p])
             /\ __stmt_type_eq(InputRule(r).stmts[p],
                               stmt_clone(InputRule(r).stmts[p]))

(* C10: whenever the rewriter is invoked for a run, the run has at least  *)
(* one participating column and row from's cell in the first of them is a *)
(* non-empty expression statement, so the assertion of merge_stmts holds.  *)
C10_RewriterHasSelector ==
  /\ pc # "abort"
  /\ (pc = "step4" /\ k < num_merges) =>
       /\ Len(Planned) >= 1
       /\ AssertedCell # 0
       /\ Deref(rules, AssertedCell).ops = "STMT_EXPRESSION"

====
